---- MODULE Spec2Model ----
(***************************************************************************)
(* Model of the job-ingestion pipeline of career_tracker_ai_agent          *)
(* (src/src/ingestor.py): scrape_job_text, JobData.clean_location,         *)
(* parse_job_details and ingest_job.                                       *)
(*                                                                         *)
(* Python strings that the code inspects character by character (dates,   *)
(* locations) are sequences of one-character strings; strings the code     *)
(* only copies are TLA+ strings.                                           *)
(***************************************************************************)
EXTENDS Integers, Sequences, FiniteSets, TLC

VARIABLES
    pc,           \* position of the current ingest_job call
    runs,         \* number of ingest_job calls started so far
    url,          \* argument of the current call
    scrape_result,\* what app.scrape() produced in this call
    raw_text,     \* value returned by scrape_job_text
    clock,        \* the two clock readings taken by parse_job_details
    llm_result,   \* `result` as captured from chain.invoke (line 216)
    job_data,     \* value returned by parse_job_details (line 237)
    retval,       \* how ingest_job ended: a return or the exception raised
    calls,        \* stages invoked in this call, in order
    db,           \* rows of the applications table
    db_before,    \* the table as it was when the current call began
    model_reply,  \* what chain.invoke gave in the current call
    bf_pc,        \* position of backfill_descriptions
    bf_rows,      \* rows returned by its initial query
    bf_i,         \* index in bf_rows of the row of the current iteration
    bf_log,       \* what the loop did so far, in order
    loc_pc,       \* position of the location-validator harness
    loc_in,       \* location string given to the validator
    loc_once,     \* clean_location(loc_in)
    loc_twice     \* clean_location(clean_location(loc_in))

vars == <<pc, runs, url, scrape_result, raw_text, clock, llm_result, job_data,
          retval, calls, db, db_before, model_reply, bf_pc, bf_rows, bf_i,
          bf_log, loc_pc, loc_in, loc_once, loc_twice>>

pipeVars == <<pc, runs, url, scrape_result, raw_text, clock, llm_result,
              job_data, retval, calls, db, db_before, model_reply>>

locVars == <<loc_pc, loc_in, loc_once, loc_twice>>

bfVars == <<bf_pc, bf_rows, bf_i, bf_log>>

----------------------------------------------------------------------------
(* Bounds of the model *)

\* longest location string enumerated exhaustively for the validator
MaxLocLen == 4

\* number of ingest_job calls in one behaviour
MaxRuns == 1

----------------------------------------------------------------------------
(* Python str helpers over character sequences *)

Whitespace == {" ", "\t", "\n"}

RECURSIVE str_replace_empty(_, _)
\* s.replace(old, ""): leftmost, non-overlapping occurrences, one pass
str_replace_empty(s, old) ==
    IF Len(s) < Len(old) THEN s
    ELSE IF SubSeq(s, 1, Len(old)) = old
         THEN str_replace_empty(SubSeq(s, Len(old) + 1, Len(s)), old)
         ELSE <<Head(s)>> \o str_replace_empty(Tail(s), old)

RECURSIVE str_lstrip(_)
str_lstrip(s) ==
    IF s # <<>> /\ Head(s) \in Whitespace THEN str_lstrip(Tail(s)) ELSE s

RECURSIVE str_rstrip(_)
str_rstrip(s) ==
    IF s # <<>> /\ s[Len(s)] \in Whitespace
    THEN str_rstrip(SubSeq(s, 1, Len(s) - 1))
    ELSE s

\* s.strip()
str_strip(s) == str_rstrip(str_lstrip(s))

\* s.endswith(",")
str_endswith_comma(s) == s # <<>> /\ s[Len(s)] = ","

\* `sub in s`
str_contains(s, sub) ==
    \E i \in 1..(Len(s) - Len(sub) + 1) : SubSeq(s, i, i + Len(sub) - 1) = sub

UnitedStates == <<"U","n","i","t","e","d"," ","S","t","a","t","e","s">>

USA == <<"U","S","A">>

----------------------------------------------------------------------------
(* JobData.clean_location, the role_location field validator *)

clean_location(v) ==
    LET clean == str_strip(str_replace_empty(
                     str_replace_empty(v, UnitedStates), USA))
    IN  IF str_endswith_comma(clean)
        THEN SubSeq(clean, 1, Len(clean) - 1)
        ELSE clean

LocAlphabet == {"U", "S", "A", ",", " ", "x"}

SanJoseCaliforniaUSA ==
    <<"S","a","n"," ","J","o","s","e",","," ",
      "C","a","l","i","f","o","r","n","i","a",","," ","U","S","A",",">>

SanJoseCalifornia ==
    <<"S","a","n"," ","J","o","s","e",","," ",
      "C","a","l","i","f","o","r","n","i","a">>

AustinTXUnitedStates ==
    <<"A","u","s","t","i","n",","," ","T","X",","," ">> \o UnitedStates

Remote == <<"R","e","m","o","t","e">>

SampleLocations ==
    {SanJoseCaliforniaUSA, SanJoseCalifornia, AustinTXUnitedStates, Remote}

LocationInputs ==
    SampleLocations \cup UNION {[1..n -> LocAlphabet] : n \in 0..MaxLocLen}

----------------------------------------------------------------------------
(* datetime: strptime(s, "%Y-%m-%d"), + timedelta(days=n), strftime       *)

Digits == {"0","1","2","3","4","5","6","7","8","9"}

DigitVal(c) ==
    CASE c = "0" -> 0 [] c = "1" -> 1 [] c = "2" -> 2 [] c = "3" -> 3
      [] c = "4" -> 4 [] c = "5" -> 5 [] c = "6" -> 6 [] c = "7" -> 7
      [] c = "8" -> 8 [] c = "9" -> 9

DigitChar(n) == <<"0","1","2","3","4","5","6","7","8","9">>[n + 1]

is_leap(y) == (y % 4 = 0) /\ ((y % 100 # 0) \/ (y % 400 = 0))

days_in_month(y, m) ==
    IF m = 2 THEN (IF is_leap(y) THEN 29 ELSE 28)
    ELSE IF m \in {4, 6, 9, 11} THEN 30 ELSE 31

\* number of days before January 1st of year y
days_before_year(y) ==
    (y - 1) * 365 + ((y - 1) \div 4) - ((y - 1) \div 100) + ((y - 1) \div 400)

RECURSIVE days_before_month(_, _)
days_before_month(y, m) ==
    IF m = 1 THEN 0
    ELSE days_before_month(y, m - 1) + days_in_month(y, m - 1)

\* proleptic Gregorian ordinal of a date, January 1st of year 1 being day 1
ymd2ord(dt) == days_before_year(dt.y) + days_before_month(dt.y, dt.m) + dt.d

ord2ymd(n) ==
    LET y == CHOOSE yy \in ((n - 1) \div 366 + 1)..((n - 1) \div 365 + 1) :
                 days_before_year(yy) < n /\ n <= days_before_year(yy + 1)
        r == n - days_before_year(y)
        m == CHOOSE mm \in 1..12 :
                 /\ days_before_month(y, mm) < r
                 /\ r <= days_before_month(y, mm) + days_in_month(y, mm)
    IN  [y |-> y, m |-> m, d |-> r - days_before_month(y, m)]

\* dt + timedelta(days=n) raises OverflowError past datetime.MAXYEAR (9999)
add_overflows(dt, n) == ymd2ord(dt) + n > days_before_year(9999 + 1)

\* dt + timedelta(days=n)
add_days(dt, n) == ord2ymd(ymd2ord(dt) + n)

\* the %m directive: 1[0-2] | 0[1-9] | [1-9]
month_field(f) ==
    \/ Len(f) = 2 /\ f[1] = "1" /\ f[2] \in {"0","1","2"}
    \/ Len(f) = 2 /\ f[1] = "0" /\ f[2] \in Digits \ {"0"}
    \/ Len(f) = 1 /\ f[1] \in Digits \ {"0"}

\* the %d directive: 3[01] | [12]\d | 0[1-9] | [1-9] | " "[1-9]
day_field(f) ==
    \/ Len(f) = 2 /\ f[1] = "3" /\ f[2] \in {"0","1"}
    \/ Len(f) = 2 /\ f[1] \in {"1","2"} /\ f[2] \in Digits
    \/ Len(f) = 2 /\ f[1] \in {"0"," "} /\ f[2] \in Digits \ {"0"}
    \/ Len(f) = 1 /\ f[1] \in Digits \ {"0"}

field_value(f) ==
    IF Len(f) = 1 THEN DigitVal(f[1])
    ELSE (IF f[1] = " " THEN 0 ELSE 10 * DigitVal(f[1])) + DigitVal(f[2])

NoDate == [ok |-> FALSE, y |-> 0, m |-> 0, d |-> 0]

\* datetime.strptime(s, "%Y-%m-%d"); ok = FALSE stands for ValueError
strptime(s) ==
    IF Len(s) < 8 \/ Len(s) > 10 THEN NoDate
    ELSE IF ~((\A i \in 1..4 : s[i] \in Digits) /\ s[5] = "-") THEN NoDate
    ELSE LET ml == IF s[7] = "-" THEN 1 ELSE 2
             mf == SubSeq(s, 6, 5 + ml)
             df == SubSeq(s, 7 + ml, Len(s))
             y  == 1000 * DigitVal(s[1]) + 100 * DigitVal(s[2])
                     + 10 * DigitVal(s[3]) + DigitVal(s[4])
         IN  IF ~(s[6 + ml] = "-" /\ month_field(mf)
                    /\ Len(df) \in {1, 2} /\ day_field(df))
             THEN NoDate
             ELSE IF y < 1 \/ field_value(df) > days_in_month(y, field_value(mf))
                  THEN NoDate
                  ELSE [ok |-> TRUE, y |-> y,
                        m |-> field_value(mf), d |-> field_value(df)]

two_digits(n) == <<DigitChar(n \div 10), DigitChar(n % 10)>>

\* dt.strftime("%Y-%m-%d"), for the four-digit years the model uses
strftime(dt) ==
    <<DigitChar(dt.y \div 1000), DigitChar((dt.y \div 100) % 10),
      DigitChar((dt.y \div 10) % 10), DigitChar(dt.y % 10)>>
    \o <<"-">> \o two_digits(dt.m) \o <<"-">> \o two_digits(dt.d)

----------------------------------------------------------------------------
(* Values handled by scrape_job_text                                       *)

\* what the visible page text says about the posting date
PostedAbsent == [p |-> "absent", n |-> 0, s |-> <<>>]

PostedRelative(n) == [p |-> "relative", n |-> n, s |-> <<>>]

PostedLiteral(s) == [p |-> "literal", n |-> 0, s |-> s]

\* a decoded JSON value: an object (with the keys the sniffer reads), a list
\* of values, or a scalar
JScalar ==
    [j |-> "scalar", keys |-> {}, type |-> "", datePosted |-> <<>>,
     baseSalary |-> <<>>, l |-> <<>>]

JObject(keys, type, datePosted, baseSalary) ==
    [j |-> "dict", keys |-> keys, type |-> type, datePosted |-> datePosted,
     baseSalary |-> baseSalary, l |-> <<>>]

JList(l) ==
    [j |-> "list", keys |-> {}, type |-> "", datePosted |-> <<>>,
     baseSalary |-> <<>>, l |-> l]

\* a <script type="application/ld+json"> element: empty (script.string is
\* None), text that is not JSON, or JSON text
EmptyScript == [k |-> "empty", data |-> JScalar]

InvalidJson == [k |-> "invalid", data |-> JScalar]

JsonScript(data) == [k |-> "json", data |-> data]

\* a value of an attribute or key of the scrape result: missing, None, the
\* empty string, or an HTML text with its ld+json scripts and visible text
Missing == [h |-> "missing", scripts |-> <<>>, posted |-> PostedAbsent]

PyNone == [h |-> "None", scripts |-> <<>>, posted |-> PostedAbsent]

EmptyStr == [h |-> "empty", scripts |-> <<>>, posted |-> PostedAbsent]

Html(scripts, posted) == [h |-> "html", scripts |-> scripts, posted |-> posted]

\* Python truthiness of such a value
truthy(v) == v.h = "html"

\* the value app.scrape() produces: an exception, a Document object with
\* attributes, or a dict with keys
ScrapeRaises == [t |-> "raise", raw_html |-> Missing, rawHtml |-> Missing]

Document(raw_html, rawHtml) ==
    [t |-> "obj", raw_html |-> raw_html, rawHtml |-> rawHtml]

Dict(raw_html, rawHtml) ==
    [t |-> "dict", raw_html |-> raw_html, rawHtml |-> rawHtml]

\* getattr(o, name, None) and d.get(name)
get_or_none(v) == IF v.h = "missing" THEN PyNone ELSE v

\* a or b
py_or(a, b) == IF truthy(a) THEN a ELSE b

\* lines 95-108: the raw HTML taken from the scrape result
get_raw_html(res) ==
    IF res.t = "obj" /\ (res.rawHtml.h # "missing" \/ res.raw_html.h # "missing")
    THEN IF ~truthy(get_or_none(res.raw_html))
         THEN get_or_none(res.rawHtml)
         ELSE get_or_none(res.raw_html)
    ELSE IF res.t = "dict"
         THEN py_or(get_or_none(res.rawHtml), get_or_none(res.raw_html))
         ELSE EmptyStr

\* names the import statements of ingestor.py bind at module level
ModuleNames ==
    {"os", "result", "load_dotenv", "WebBaseLoader", "ChatGoogleGenerativeAI",
     "BaseModel", "Field", "field_validator", "ChatPromptTemplate",
     "get_db_connection", "datetime", "timedelta", "date", "Literal",
     "FirecrawlApp", "BeautifulSoup"}

Fact(key, value) == [key |-> key, value |-> value]

RECURSIVE first_job_posting(_, _)
\* next((item for item in data if item.get('@type') == 'JobPosting'), default)
first_job_posting(l, default) ==
    IF l = <<>> THEN [exc |-> "none", v |-> default]
    ELSE IF Head(l).j # "dict" THEN [exc |-> "AttributeError", v |-> default]
    ELSE IF "@type" \in Head(l).keys /\ Head(l).type = "JobPosting"
         THEN [exc |-> "none", v |-> Head(l)]
         ELSE first_job_posting(Tail(l), default)

\* lines 125-129: the HARD_FACT lines of one decoded value
hard_facts(data) ==
    IF data.j # "dict" THEN <<>>
    ELSE (IF "datePosted" \in data.keys
          THEN <<Fact("HARD_FACT_DATE_POSTED", data.datePosted)>> ELSE <<>>)
         \o
         (IF "baseSalary" \in data.keys
          THEN <<Fact("HARD_FACT_SALARY", data.baseSalary)>> ELSE <<>>)

\* lines 120-129, the body of the try: the exception it raises, if any, and
\* the lines it appends to extracted_meta
sniff_script(script) ==
    IF "json" \notin ModuleNames THEN [exc |-> "NameError", facts |-> <<>>]
    ELSE IF script.k = "empty" THEN [exc |-> "TypeError", facts |-> <<>>]
    ELSE IF script.k = "invalid" THEN [exc |-> "JSONDecodeError", facts |-> <<>>]
    ELSE IF script.data.j = "list"
         THEN IF script.data.l = <<>>
              THEN [exc |-> "IndexError", facts |-> <<>>]
              ELSE LET r == first_job_posting(script.data.l, script.data.l[1])
                   IN  IF r.exc # "none"
                       THEN [exc |-> r.exc, facts |-> <<>>]
                       ELSE [exc |-> "none", facts |-> hard_facts(r.v)]
         ELSE [exc |-> "none", facts |-> hard_facts(script.data)]

\* a handler that continues only past JSON decoding errors
sniff_except_DecodeOnly(exc) == exc = "JSONDecodeError"

\* lines 130-131: what the `except:` of the sniffer loop catches
sniff_except(exc) == TRUE

RECURSIVE extract_meta(_)
\* lines 114-131: the loop over the ld+json scripts
extract_meta(scripts) ==
    IF scripts = <<>> THEN [raised |-> FALSE, meta |-> <<>>]
    ELSE LET r    == sniff_script(Head(scripts))
             rest == extract_meta(Tail(scripts))
         IN  IF r.exc # "none" /\ ~sniff_except(r.exc)
             THEN [raised |-> TRUE, meta |-> <<>>]
             ELSE IF rest.raised THEN rest
             ELSE [raised |-> FALSE,
                   meta |-> (IF r.exc = "none" THEN r.facts ELSE <<>>)
                            \o rest.meta]

\* the document scrape_job_text returns, or None
DocNone == [isNone |-> TRUE, meta |-> <<>>, content |-> PostedAbsent]

Doc(meta, content) == [isNone |-> FALSE, meta |-> meta, content |-> content]

\* lines 70-157.  BeautifulSoup(None) raises TypeError; every exception of the
\* outer try makes the function return None.  The text the template puts
\* around the metadata and the content makes final_output non-empty always.
\* The cleaned text is kept as what it says about the posting date; its cut
\* at 20000 characters (line 142) is not represented.  FIRECRAWL_API_KEY is
\* set whenever the module was imported (lines 18-19), so lines 75-77 do not
\* return.
scrape_job_text(res) ==
    IF res.t = "raise" THEN DocNone
    ELSE LET raw_html == get_raw_html(res)
         IN  IF raw_html.h = "None" THEN DocNone
             ELSE LET m == extract_meta(raw_html.scripts)
                  IN  IF m.raised THEN DocNone
                      ELSE Doc(m.meta, raw_html.posted)

----------------------------------------------------------------------------
(* JobData and parse_job_details                                           *)

Unknown == <<"U","n","k","n","o","w","n">>

NotSpecified == <<"N","o","t"," ","S","p","e","c","i","f","i","e","d">>

\* line 32: the Literal type of JobData.job_function
JobFunctions ==
    {"Product", "Machine Learning", "Analytics", "Strategy", "Engineering",
     "Other"}

\* the deadline field: None (the default of line 40) or a string
NoDeadline == [isNone |-> TRUE, s |-> <<>>]

DeadlineStr(s) == [isNone |-> FALSE, s |-> s]

\* TASK 4.1 of the prompt (lines 199-202): the posting date the model gives
llm_posting_date(doc, today) ==
    LET hard == SelectSeq(doc.meta, LAMBDA f : f.key = "HARD_FACT_DATE_POSTED")
    IN  IF hard # <<>> THEN hard[1].value
        ELSE IF doc.content.p = "relative"
             THEN strftime(add_days(today, 0 - doc.content.n))
             ELSE IF doc.content.p = "literal" THEN doc.content.s
                  ELSE Unknown

\* TASK 4.2 of the prompt (lines 203-204): the salary the model gives
llm_salary(doc) ==
    LET hard == SelectSeq(doc.meta, LAMBDA f : f.key = "HARD_FACT_SALARY")
    IN  IF hard # <<>> THEN hard[1].value ELSE NotSpecified

\* the arguments the model returns for the JobData schema: the date and the
\* salary follow the prompt, the other fields are the model's free choice
llm_answer(doc, today, location, function, deadline) ==
    [company_name     |-> "NVIDIA",
     role_location    |-> location,
     industry         |-> "Semiconductors",
     role_title       |-> "Data Engineer",
     job_posting_date |-> llm_posting_date(doc, today),
     job_function     |-> function,
     job_description  |-> "Responsibilities and requirements",
     job_salary       |-> llm_salary(doc),
     deadline         |-> deadline]

NoJobData ==
    [company_name |-> "", role_location |-> <<>>, industry |-> "",
     role_title |-> "", job_posting_date |-> <<>>, job_function |-> "",
     job_description |-> "", job_salary |-> <<>>, deadline |-> NoDeadline]

\* a schema that files an unlisted job function under "Other"
validate_job_data_Coerce(answer) ==
    [ok |-> TRUE,
     data |-> [answer EXCEPT
                 !.role_location = clean_location(@),
                 !.job_function = IF @ \in JobFunctions THEN @ ELSE "Other"]]

\* lines 22-51: JobData(**answer); ok = FALSE stands for ValidationError
validate_job_data(answer) ==
    IF answer.job_function \notin JobFunctions
    THEN [ok |-> FALSE, data |-> NoJobData]
    ELSE [ok |-> TRUE,
          data |-> [answer EXCEPT !.role_location = clean_location(@)]]

\* a resolver that recomputes the deadline whatever the extractor returned
deadline_absent_Always(result) == TRUE

\* line 218: not result.deadline
deadline_absent(result) == result.deadline.isNone \/ result.deadline.s = <<>>

\* a resolver using the 14 days its comment speaks of
posted_deadline_14(posted_dt) == strftime(add_days(posted_dt, 14))

\* lines 225-228: the deadline computed from the posting date
posted_deadline(posted_dt) == strftime(add_days(posted_dt, 5))

\* a fallback using the 14 days its comment speaks of
fallback_deadline_14(now) == strftime(add_days(now, 14))

\* lines 233-234: the deadline computed from datetime.now()
fallback_deadline(now) == strftime(add_days(now, 5))

\* lines 218-235: the deadline resolution; exc is the exception that leaves
\* the function, if any
resolve_deadline(result, now) ==
    IF ~deadline_absent(result) THEN [exc |-> "none", result |-> result]
    ELSE LET posted_dt == strptime(result.job_posting_date)
         IN  IF posted_dt.ok
             THEN IF add_overflows(posted_dt, 5)
                  THEN [exc |-> "OverflowError", result |-> result]
                  ELSE [exc |-> "none",
                        result |-> [result EXCEPT !.deadline =
                                      DeadlineStr(posted_deadline(posted_dt))]]
             ELSE [exc |-> "none",
                   result |-> [result EXCEPT !.deadline =
                                 DeadlineStr(fallback_deadline(now))]]

\* the model's reply to chain.invoke: an error of the call, or arguments
ModelError == [t |-> "error", location |-> <<>>, function |-> "",
               deadline |-> NoDeadline]

ModelReply(location, function, deadline) ==
    [t |-> "answer", location |-> location, function |-> function,
     deadline |-> deadline]

\* lines 160-237: exc is the exception parse_job_details raises, if any;
\* captured is `result` as bound on line 216, result the value returned
parse_job_details(text, clk, reply) ==
    IF reply.t = "error"
    THEN [exc |-> "ModelError", captured |-> NoJobData, result |-> NoJobData]
    ELSE LET v == validate_job_data(
                      llm_answer(text, clk.today, reply.location,
                                 reply.function, reply.deadline))
         IN  IF ~v.ok
             THEN [exc |-> "ValidationError", captured |-> NoJobData,
                   result |-> NoJobData]
             ELSE LET r == resolve_deadline(v.data, clk.now)
                  IN  [exc |-> r.exc, captured |-> v.data,
                       result |-> IF r.exc = "none" THEN r.result ELSE NoJobData]

----------------------------------------------------------------------------
(* Inputs of the pipeline: what the fetch, the clock and the model give    *)

Date(y, m, d) == [y |-> y, m |-> m, d |-> d]

D20250301 == <<"2","0","2","5","-","0","3","-","0","1">>

D20250110 == <<"2","0","2","5","-","0","1","-","1","0">>

D20250115 == <<"2","0","2","5","-","0","1","-","1","5">>

D20241229 == <<"2","0","2","4","-","1","2","-","2","9">>

D20240226 == <<"2","0","2","4","-","0","2","-","2","6">>

D20250401 == <<"2","0","2","5","-","0","4","-","0","1">>

\* parsable by strptime although not zero-padded
D2025_1_5 == <<"2","0","2","5","-","1","-","5">>

\* well-formed but no calendar date
D20250230 == <<"2","0","2","5","-","0","2","-","3","0">>

ThreeDaysAgo == <<"3"," ","d","a","y","s"," ","a","g","o">>

Urls == {"https://jobs.example/1"}

JobPostingLd ==
    JObject({"@type", "datePosted", "baseSalary"}, "JobPosting", D20250301,
            <<"1","2","0","k">>)

OrganizationLd == JObject({"@type"}, "Organization", <<>>, <<>>)

\* the ld+json scripts of a page: none, well-formed ones, malformed ones
MalformedScriptLists ==
    {<<InvalidJson>>, <<EmptyScript>>, <<JsonScript(JList(<<>>))>>,
     <<JsonScript(JList(<<JScalar>>))>>, <<InvalidJson, EmptyScript>>}

ScriptLists ==
    MalformedScriptLists \cup
    {<<>>, <<JsonScript(JobPostingLd)>>, <<JsonScript(JScalar)>>,
     <<InvalidJson, JsonScript(JobPostingLd)>>,
     <<JsonScript(JList(<<OrganizationLd, JobPostingLd>>))>>}

PostedPhrases ==
    {PostedAbsent, PostedRelative(10)} \cup
    {PostedLiteral(s) : s \in {D20250110, D20241229, D20240226, D2025_1_5,
                               D20250230, ThreeDaysAgo, Unknown}}

Pages ==
    {Html(s, PostedRelative(10)) : s \in ScriptLists}
    \cup {Html(<<>>, p) : p \in PostedPhrases}
    \cup {Html(<<JsonScript(JobPostingLd)>>, PostedAbsent)}

APage == Html(<<>>, PostedLiteral(D20250110))

ScrapeResults ==
    {ScrapeRaises}
    \cup {Document(p, Missing) : p \in Pages}
    \cup {Document(PyNone, APage), Document(PyNone, PyNone),
          Document(EmptyStr, Missing), Document(EmptyStr, EmptyStr),
          Document(Missing, Missing), Document(Missing, APage),
          Dict(Missing, APage), Dict(APage, Missing), Dict(Missing, Missing),
          Dict(EmptyStr, EmptyStr), Dict(Missing, EmptyStr)}

\* date.today() on line 170, and datetime.now() on line 233, which is read
\* after the model call and may fall on the next day
Todays == {Date(2025, 3, 20), Date(2024, 12, 29)}

Clocks ==
    {[today |-> t, now |-> add_days(t, k)] : t \in Todays, k \in {0, 1}}

NoClock == [today |-> Date(0, 0, 0), now |-> Date(0, 0, 0)]

ModelReplies ==
    {ModelError} \cup
    {ModelReply(l, f, d) :
        l \in {SanJoseCaliforniaUSA, Remote},
        f \in {"Engineering", "Other", "Data Science"},
        d \in {NoDeadline, DeadlineStr(<<>>), DeadlineStr(D20250401)}}

----------------------------------------------------------------------------
(* ingest_job                                                              *)

\* lines 263-276: the row handed to insert
make_row(u, jd) ==
    [job_url          |-> u,
     company_name     |-> jd.company_name,
     role_location    |-> jd.role_location,
     role_title       |-> jd.role_title,
     industry         |-> jd.industry,
     job_posting_date |-> jd.job_posting_date,
     job_description  |-> jd.job_description,
     job_function     |-> jd.job_function,
     job_salary       |-> jd.job_salary,
     status           |-> "Yet to Apply"]

\* an orchestrator that goes on after a failed scrape
scrape_failed_Never(text) == FALSE

\* line 245: not raw_text
scrape_failed(text) == text.isNone

LocOff ==
    /\ loc_pc = "off"
    /\ loc_in = <<>>
    /\ loc_once = <<>>
    /\ loc_twice = <<>>

BackfillOff ==
    /\ bf_pc = "off"
    /\ bf_rows = <<>>
    /\ bf_i = 0
    /\ bf_log = <<>>

Init ==
    /\ pc = "idle"
    /\ runs = 0
    /\ url = "none"
    /\ scrape_result = ScrapeRaises
    /\ raw_text = DocNone
    /\ clock = NoClock
    /\ llm_result = NoJobData
    /\ job_data = NoJobData
    /\ retval = "none"
    /\ calls = <<>>
    /\ db = <<>>
    /\ db_before = <<>>
    /\ model_reply = ModelError
    /\ LocOff
    /\ BackfillOff

\* a caller invokes ingest_job(url)
Call ==
    /\ pc \in {"idle", "done"}
    /\ runs < MaxRuns
    /\ \E u \in Urls : url' = u
    /\ runs' = runs + 1
    /\ pc' = "scrape"
    /\ scrape_result' = ScrapeRaises
    /\ raw_text' = DocNone
    /\ clock' = NoClock
    /\ llm_result' = NoJobData
    /\ job_data' = NoJobData
    /\ retval' = "none"
    /\ calls' = <<>>
    /\ db_before' = db
    /\ model_reply' = ModelError
    /\ UNCHANGED db
    /\ UNCHANGED locVars
    /\ UNCHANGED bfVars

\* lines 244-246: Step A
Scrape ==
    /\ pc = "scrape"
    /\ \E res \in ScrapeResults :
          /\ scrape_result' = res
          /\ raw_text' = scrape_job_text(res)
    /\ calls' = Append(calls, "scrape")
    /\ IF scrape_failed(raw_text')
       THEN pc' = "done" /\ retval' = "return None"
       ELSE pc' = "parse" /\ UNCHANGED retval
    /\ UNCHANGED <<runs, url, clock, llm_result, job_data, db, db_before,
                   model_reply>>
    /\ UNCHANGED locVars
    /\ UNCHANGED bfVars

\* lines 249-255: Step B; an exception of parse_job_details leaves ingest_job
Parse ==
    /\ pc = "parse"
    /\ \E clk \in Clocks, reply \in ModelReplies :
          LET r == parse_job_details(raw_text, clk, reply)
          IN  /\ clock' = clk
              /\ model_reply' = reply
              /\ llm_result' = r.captured
              /\ job_data' = r.result
              /\ IF r.exc # "none"
                 THEN pc' = "done" /\ retval' = r.exc
                 ELSE pc' = "insert" /\ UNCHANGED retval
    /\ calls' = Append(calls, "parse")
    /\ UNCHANGED <<runs, url, scrape_result, raw_text, db, db_before>>
    /\ UNCHANGED locVars
    /\ UNCHANGED bfVars

\* lines 258-283: Step C; the write succeeds or is rejected
Insert ==
    /\ pc = "insert"
    /\ \E accepted \in BOOLEAN :
          IF accepted
          THEN /\ db' = Append(db, make_row(url, job_data))
               /\ retval' = "return response"
          ELSE /\ UNCHANGED db
               /\ retval' = "return None"
    /\ calls' = Append(calls, "insert")
    /\ pc' = "done"
    /\ UNCHANGED <<runs, url, scrape_result, raw_text, clock, llm_result,
                   job_data, db_before, model_reply>>
    /\ UNCHANGED locVars
    /\ UNCHANGED bfVars

Next == Call \/ Scrape \/ Parse \/ Insert

Spec == Init /\ [][Next]_vars

----------------------------------------------------------------------------
(* Harness applying the validator once and then again to its own output *)

PipeOff ==
    /\ pc = "off"
    /\ runs = 0
    /\ url = "none"
    /\ scrape_result = ScrapeRaises
    /\ raw_text = DocNone
    /\ clock = NoClock
    /\ llm_result = NoJobData
    /\ job_data = NoJobData
    /\ retval = "none"
    /\ calls = <<>>
    /\ db = <<>>
    /\ db_before = <<>>
    /\ model_reply = ModelError

InitClean ==
    /\ PipeOff
    /\ BackfillOff
    /\ loc_pc = "new"
    /\ loc_in \in LocationInputs
    /\ loc_once = <<>>
    /\ loc_twice = <<>>

\* the validator runs on the value given for role_location
Validate ==
    /\ loc_pc = "new"
    /\ loc_once' = clean_location(loc_in)
    /\ loc_pc' = "validated"
    /\ UNCHANGED <<loc_in, loc_twice>>
    /\ UNCHANGED pipeVars
    /\ UNCHANGED bfVars

\* the validated value is validated again
Revalidate ==
    /\ loc_pc = "validated"
    /\ loc_twice' = clean_location(loc_once)
    /\ loc_pc' = "revalidated"
    /\ UNCHANGED <<loc_in, loc_once>>
    /\ UNCHANGED pipeVars
    /\ UNCHANGED bfVars

NextClean == Validate \/ Revalidate

SpecClean == InitClean /\ [][NextClean]_vars

----------------------------------------------------------------------------
(* Vocabulary of the properties                                            *)

\* parse_job_details returned a record in the current call
Parsed == job_data # NoJobData

\* the extractor returned a deadline / returned none
DeadlineReturned == ~llm_result.deadline.isNone /\ llm_result.deadline.s # <<>>

DeadlineNotReturned == llm_result # NoJobData /\ ~DeadlineReturned

\* the calendar day after dt
NextDay(dt) ==
    LET last == IF dt.m = 2
                THEN (IF dt.y % 4 = 0 /\ (dt.y % 100 # 0 \/ dt.y % 400 = 0)
                      THEN 29 ELSE 28)
                ELSE IF dt.m \in {4, 6, 9, 11} THEN 30 ELSE 31
    IN  IF dt.d < last THEN [dt EXCEPT !.d = dt.d + 1]
        ELSE IF dt.m < 12 THEN [y |-> dt.y, m |-> dt.m + 1, d |-> 1]
        ELSE [y |-> dt.y + 1, m |-> 1, d |-> 1]

FiveDaysAfter(dt) == NextDay(NextDay(NextDay(NextDay(NextDay(dt)))))

\* s is written YYYY-MM-DD
IsIsoDate(s) ==
    /\ Len(s) = 10
    /\ \A i \in {1, 2, 3, 4, 6, 7, 9, 10} : s[i] \in Digits
    /\ s[5] = "-" /\ s[8] = "-"

\* the date a string written YYYY-MM-DD denotes
DateOf(s) ==
    [y |-> 1000 * DigitVal(s[1]) + 100 * DigitVal(s[2]) + 10 * DigitVal(s[3])
             + DigitVal(s[4]),
     m |-> 10 * DigitVal(s[6]) + DigitVal(s[7]),
     d |-> 10 * DigitVal(s[9]) + DigitVal(s[10])]

PostedDate == strptime(llm_result.job_posting_date)

----------------------------------------------------------------------------
(* C1: every row handed to insert carries a non-null deadline field        *)
(* holding the resolved deadline.                                          *)
C1_InsertedRowHasDeadline ==
    \A i \in DOMAIN db :
        /\ "deadline" \in DOMAIN db[i]
        /\ ~db[i].deadline.isNone

(* C2: when the extractor returned a deadline, the resolution step of      *)
(* parse_job_details returns it unchanged, whatever job_posting_date is.   *)
C2_ReturnedDeadlineKept ==
    (Parsed /\ DeadlineReturned) => job_data.deadline = llm_result.deadline

\* a returned deadline survived next to a posting date that parses
C2_Witness ==
    /\ Parsed
    /\ llm_result.deadline = DeadlineStr(D20250401)
    /\ llm_result.job_posting_date = D20250110
    /\ job_data.deadline = DeadlineStr(D20250401)

C5_CleanIdempotent ==
    loc_pc = "revalidated" => loc_twice = loc_once

(* C6: a cleaned location contains neither "United States" nor "USA",      *)
(* does not end with a comma, has no leading or trailing whitespace, and   *)
(* "San Jose, California, USA," is cleaned to "San Jose, California".      *)
C6_CleanResult ==
    loc_pc \in {"validated", "revalidated"} =>
        /\ ~str_contains(loc_once, UnitedStates)
        /\ ~str_contains(loc_once, USA)
        /\ ~(loc_once # <<>> /\ loc_once[Len(loc_once)] = ",")
        /\ ~(loc_once # <<>> /\ loc_once[1] \in Whitespace)
        /\ ~(loc_once # <<>> /\ loc_once[Len(loc_once)] \in Whitespace)
        /\ (loc_in = SanJoseCaliforniaUSA => loc_once = SanJoseCalifornia)

\* the page that was fetched, when the fetch gave HTML text
Fetched == get_raw_html(scrape_result)

Scraped == Len(calls) >= 1

\* the facts that the well-formed JSON objects of the scripts could give
WellFormedFacts(scripts) ==
    LET objects ==
            {scripts[i].data : i \in {k \in DOMAIN scripts :
                                        scripts[k].k = "json"}}
            \cup UNION {{scripts[i].data.l[n] : n \in DOMAIN scripts[i].data.l} :
                          i \in {k \in DOMAIN scripts : scripts[k].k = "json"}}
    IN  UNION {{Fact("HARD_FACT_DATE_POSTED", o.datePosted),
                Fact("HARD_FACT_SALARY", o.baseSalary)} :
                  o \in {x \in objects : x.j = "dict"}}

(* C7: whatever malformed metadata blocks the fetched HTML holds,          *)
(* scrape_job_text returns the document, and those blocks give no          *)
(* HARD_FACT line.                                                         *)
C7_SniffingNeverFails ==
    (Scraped /\ scrape_result.t # "raise" /\ Fetched.h = "html") =>
        /\ ~raw_text.isNone
        /\ \A i \in DOMAIN raw_text.meta :
               raw_text.meta[i] \in WellFormedFacts(Fetched.scripts)
        /\ (Fetched.scripts \in MalformedScriptLists => raw_text.meta = <<>>)

\* a page whose only metadata blocks are malformed was turned into a document
C7_Witness ==
    /\ Scraped
    /\ Fetched.h = "html"
    /\ Fetched.scripts = <<InvalidJson, EmptyScript>>
    /\ ~raw_text.isNone
    /\ raw_text.meta = <<>>

(* C8: with a well-formed JobPosting block giving datePosted 2025-03-01    *)
(* and page text "Posted 10 days ago", the document handed to extraction   *)
(* has the line HARD_FACT_DATE_POSTED: 2025-03-01 and the resolved         *)
(* job_posting_date is 2025-03-01.                                         *)
C8_EmbeddedFactWins ==
    (Scraped /\ scrape_result.t # "raise"
        /\ Fetched = Html(<<JsonScript(JobPostingLd)>>, PostedRelative(10))) =>
        /\ ~raw_text.isNone
        /\ \E i \in DOMAIN raw_text.meta :
               raw_text.meta[i] = Fact("HARD_FACT_DATE_POSTED", D20250301)
        /\ (Parsed => job_data.job_posting_date = D20250301)

(* C9: after a fetch failure, an empty or absent body included, the        *)
(* extractor is not called, no record is persisted and the call ends       *)
(* without a record being returned.                                        *)
C9_FetchFailureStopsRun ==
    (Scraped /\ (scrape_result.t = "raise" \/ Fetched.h \in {"None", "empty"})) =>
        /\ \A i \in DOMAIN calls : calls[i] # "parse"
        /\ db = db_before
        /\ retval # "return response"

(* C10: in every call of ingest_job the stages run in the order scrape,    *)
(* parse (with the deadline resolution), insert; insert is invoked at most *)
(* once and only after the other two returned; a failed stage ends the     *)
(* call; the table gains the one whole row of the call or nothing.         *)
C10_AllOrNothingInOrder ==
    /\ calls \in {<<>>, <<"scrape">>, <<"scrape", "parse">>,
                  <<"scrape", "parse", "insert">>}
    /\ (Len(calls) >= 2 => ~raw_text.isNone)
    /\ (Len(calls) = 3 => Parsed /\ ~job_data.deadline.isNone
                             /\ job_data.deadline.s # <<>>)
    /\ (Scraped /\ raw_text.isNone => pc = "done" /\ calls = <<"scrape">>)
    /\ (Len(calls) >= 2 /\ ~Parsed => pc = "done" /\ calls = <<"scrape", "parse">>)
    /\ (pc # "done" => db = db_before)
    /\ (Len(calls) < 3 => db = db_before)
    /\ \/ db = db_before
       \/ db = Append(db_before, make_row(url, job_data))

\* a call that went through the three stages and added its row
C10_Witness ==
    /\ pc = "done"
    /\ calls = <<"scrape", "parse", "insert">>
    /\ db = Append(db_before, make_row(url, job_data))

\* the stage of the finished call that failed, if any
FailedStage ==
    IF raw_text.isNone THEN "fetch"
    ELSE IF ~Parsed THEN "extraction"
    ELSE IF db = db_before THEN "persistence"
    ELSE "none"

\* the outcomes that tell the caller that the given stage failed
ErrorsOf(stage) ==
    CASE stage = "fetch" -> {"FetchError"}
      [] stage = "extraction" ->
            {"ExtractionError", "ModelError", "ValidationError", "OverflowError"}
      [] stage = "persistence" -> {"PersistenceError"}

(* C11: when the fetch, the extraction or the write of a call fails, the   *)
(* caller of ingest_job receives an error that names the failed stage; a   *)
(* failed call never returns as a successful or an empty one does.         *)
C11_StageErrorsReported ==
    (pc = "done" /\ FailedStage # "none") =>
        /\ retval \notin {"return None", "return response"}
        /\ retval \in ErrorsOf(FailedStage)

\* the six job functions of the data model
SixFunctions ==
    {"Engineering", "Product", "Machine Learning", "Analytics", "Strategy",
     "Other"}

(* C12: every persisted record has a job_function among the six values;    *)
(* a reply of the extractor with another value makes the extraction fail   *)
(* and is neither turned into one of the six nor persisted.                *)
C12_JobFunctionOneOfSix ==
    /\ \A i \in DOMAIN db : db[i].job_function \in SixFunctions
    /\ (Parsed => /\ job_data.job_function \in SixFunctions
                  /\ job_data.job_function = model_reply.function)
    /\ (Len(calls) >= 2 /\ model_reply.t = "answer"
           /\ model_reply.function \notin SixFunctions) =>
          /\ ~Parsed
          /\ pc = "done"
          /\ retval = "ValidationError"
          /\ calls = <<"scrape", "parse">>
          /\ db = db_before

\* an unlisted job function was answered and the call ended in the error
C12_Witness ==
    /\ Len(calls) >= 2
    /\ model_reply.t = "answer"
    /\ model_reply.function = "Data Science"
    /\ retval = "ValidationError"
    /\ db = db_before

----------------------------------------------------------------------------
(* backfill_descriptions (src/src/backfill.py)                             *)

\* most rows the applications table holds when the repair starts
MaxBackfillRows == 3

\* line 50: time.sleep(2)
SleepSeconds == 2

\* a value of the job_description column: NULL, the description text an
\* ingestion extracted, or a document as scrape_job_text returns it
DescNull == [kind |-> "null", doc |-> DocNone]

DescText == [kind |-> "text", doc |-> DocNone]

DescDocument(d) == [kind |-> "document", doc |-> d]

\* a stored row of the applications table
StoredRow(id, u, description) ==
    [id              |-> id,
     job_url         |-> u,
     company_name    |-> "NVIDIA",
     role_title      |-> "Data Engineer",
     job_description |-> description,
     status          |-> "Yet to Apply"]

\* the tables the repair may find: ids are unique, descriptions set or NULL
Tables ==
    UNION {{[i \in 1..n |-> StoredRow(i, "https://jobs.example/1", f[i])] :
               f \in [1..n -> {DescNull, DescText}]} :
           n \in 0..MaxBackfillRows}

\* what app.scrape() gives during a repair
BackfillScrapes ==
    {ScrapeRaises, Document(APage, Missing), Document(EmptyStr, EmptyStr),
     Document(Html(<<JsonScript(JobPostingLd)>>, PostedRelative(10)), Missing)}

\* line 15: select("*").is_("job_description", "null")
select_incomplete(table) ==
    SelectSeq(table, LAMBDA r : r.job_description.kind = "null")

\* an update that lacks the filter on the id
update_description_All(table, job_id, description) ==
    [i \in DOMAIN table |-> [table[i] EXCEPT !.job_description = description]]

\* lines 39-41: update({"job_description": ...}).eq("id", job_id)
update_description(table, job_id, description) ==
    [i \in DOMAIN table |->
        IF table[i].id = job_id
        THEN [table[i] EXCEPT !.job_description = description]
        ELSE table[i]]

\* a loop body whose errors leave the loop
backfill_except_None(event) == FALSE

\* lines 46-47: `except Exception` of the loop body catches the error
backfill_except(event) == TRUE

LogEntry(id, event, seconds) == [id |-> id, event |-> event, seconds |-> seconds]

\* lines 32-47: the event of one iteration; an exception may leave
\* scrape_job_text (FirecrawlApp() of line 79 of ingestor.py is outside its
\* try) or the update
repair_event(res, raised) ==
    IF raised = "scrape" THEN "error"
    ELSE IF scrape_job_text(res).isNone THEN "failed"
    ELSE IF raised = "update" THEN "error"
    ELSE "fixed"

PipeParked ==
    /\ pc = "off"
    /\ runs = 0
    /\ url = "none"
    /\ scrape_result = ScrapeRaises
    /\ raw_text = DocNone
    /\ clock = NoClock
    /\ llm_result = NoJobData
    /\ job_data = NoJobData
    /\ retval = "none"
    /\ calls = <<>>
    /\ model_reply = ModelError

pipeRest == <<pc, runs, url, scrape_result, raw_text, clock, llm_result,
              job_data, retval, calls, model_reply>>

InitBackfill ==
    /\ PipeParked
    /\ LocOff
    /\ db \in Tables
    /\ db_before = db
    /\ bf_pc = "start"
    /\ bf_rows = <<>>
    /\ bf_i = 0
    /\ bf_log = <<>>

\* lines 11-22: the initial query, and the return when it finds nothing
BackfillQuery ==
    /\ bf_pc = "start"
    /\ bf_rows' = select_incomplete(db)
    /\ IF bf_rows' = <<>>
       THEN bf_pc' = "done" /\ UNCHANGED bf_i
       ELSE bf_pc' = "repair" /\ bf_i' = 1
    /\ UNCHANGED <<bf_log, db, db_before>>
    /\ UNCHANGED pipeRest
    /\ UNCHANGED locVars

\* lines 25-47: one iteration up to the sleep
RepairRow ==
    /\ bf_pc = "repair"
    /\ \E res \in BackfillScrapes, raised \in {"none", "scrape", "update"} :
          LET job_id == bf_rows[bf_i].id
              event  == repair_event(res, raised)
          IN  /\ db' = IF event = "fixed"
                       THEN update_description(
                                db, job_id, DescDocument(scrape_job_text(res)))
                       ELSE db
              /\ bf_log' = Append(bf_log, LogEntry(job_id, event, 0))
              /\ bf_pc' = IF event = "error" /\ ~backfill_except(event)
                          THEN "done"
                          ELSE "sleep"
    /\ UNCHANGED <<bf_rows, bf_i, db_before>>
    /\ UNCHANGED pipeRest
    /\ UNCHANGED locVars

\* line 50, and the step of the for loop to the next row or to the end
BackfillSleep ==
    /\ bf_pc = "sleep"
    /\ bf_log' = Append(bf_log, LogEntry(bf_rows[bf_i].id, "sleep", SleepSeconds))
    /\ IF bf_i < Len(bf_rows)
       THEN bf_i' = bf_i + 1 /\ bf_pc' = "repair"
       ELSE bf_pc' = "done" /\ UNCHANGED bf_i
    /\ UNCHANGED <<bf_rows, db, db_before>>
    /\ UNCHANGED pipeRest
    /\ UNCHANGED locVars

NextBackfill == BackfillQuery \/ RepairRow \/ BackfillSleep

\* the script runs its statements one after the other until it ends
SpecBackfill ==
    InitBackfill /\ [][NextBackfill]_vars /\ WF_vars(NextBackfill)

----------------------------------------------------------------------------
\* a row but for its description
Undescribed(row) == [row EXCEPT !.job_description = DescNull]

\* the events the loop logged for the row with the given id
EventsOf(id) ==
    {bf_log[k].event : k \in {j \in DOMAIN bf_log : bf_log[j].id = id}}

(* C13: the repair inserts no row, changes no field but job_description,   *)
(* changes it only in a row that was incomplete and whose re-scrape and    *)
(* update succeeded, and leaves every other row as it was.                 *)
C13_OnlyDescriptionOfRepairedRow ==
    /\ Len(db) = Len(db_before)
    /\ \A i \in DOMAIN db :
          /\ Undescribed(db[i]) = Undescribed(db_before[i])
          /\ (db[i] # db_before[i]) =>
                /\ db_before[i].job_description.kind = "null"
                /\ "fixed" \in EventsOf(db[i].id)
          /\ (EventsOf(db[i].id) \cap {"failed", "error"} # {}) =>
                db[i] = db_before[i]

\* one row was repaired, another failed, a third was complete from the start
C13_Witness ==
    /\ bf_pc = "done"
    /\ Len(db) = 3
    /\ db_before[1].job_description.kind = "text"
    /\ db[1] = db_before[1]
    /\ db[2].job_description.kind = "document"
    /\ "error" \in EventsOf(3)
    /\ db[3] = db_before[3]

\* the log, entry by entry: row k is attempted, then the delay follows
LoopInOrder ==
    /\ Len(bf_log) <= 2 * Len(bf_rows)
    /\ \A k \in DOMAIN bf_log :
          LET row == bf_rows[(k + 1) \div 2]
          IN  /\ bf_log[k].id = row.id
              /\ IF k % 2 = 1
                 THEN bf_log[k].event \in {"fixed", "failed", "error"}
                 ELSE bf_log[k].event = "sleep" /\ bf_log[k].seconds = 2
    /\ (bf_pc # "start" =>
           bf_rows = SelectSeq(db_before,
                               LAMBDA r : r.job_description.kind = "null"))
    /\ (bf_pc = "done" => Len(bf_log) = 2 * Len(bf_rows))

(* C14: the loop attempts the rows of the initial query one at a time in   *)
(* their order, each exactly once, whether or not earlier rows failed;     *)
(* the delay follows every attempt; and the run ends.                      *)
C14_EveryRowOnceThenEnd ==
    [](LoopInOrder) /\ <>(bf_pc = "done")

\* the run ended after an error on the first row and a repair of the second
C14_Witness ==
    /\ bf_pc = "done"
    /\ Len(bf_rows) >= 2
    /\ bf_log[1].event = "error"
    /\ bf_log[3].event = "fixed"
    /\ Len(bf_log) = 2 * Len(bf_rows)

(* C15: the description the repair writes is the description the           *)
(* Structured Extractor produced, not the document of the fetch stage.     *)
C15_WritesExtractedDescription ==
    \A i \in DOMAIN db :
        (db[i] # db_before[i]) => db[i].job_description.kind = "text"

====
